---- MODULE Spec2Model ----
(***************************************************************************)
(* Model of the page served by WebserverHTML.h: the head script that arms  *)
(* a repeating timer, the refresh routine fetchData() and the three live   *)
(* display elements (temperature, distance, alertBox) it updates.          *)
(***************************************************************************)
EXTENDS Integers, Sequences, FiniteSets, TLC

(* ---------------------------- bounds ----------------------------------- *)
MaxLen == 2        \* longest alert message, in characters
MaxTicks == 2      \* timer firings explored

(* --------------------------- constants --------------------------------- *)
PollInterval == 1000                 \* setInterval(fetchData, 1000)

AlertBoxCssDisplayBlock == "block"

AlertBoxCssDisplay == "none"         \* .alert-box { display: none; }
BodyElements == 4                    \* alertBox, temperature, distance, alertMessage

WhiteSpace == {" "}
Chars == {" ", "a"}
Vals == {"70", "72"}
Statuses == {200, 500}
ElementIds == {"temperature", "distance", "alertMessage"}
Msgs == UNION {[1..n -> Chars] : n \in 0..MaxLen}
InitMsgs == {<<>>, <<"a">>}

(* ------------------------ String.prototype.trim ------------------------ *)
RECURSIVE TrimStart(_)
TrimStart(s) ==
    IF s # <<>> /\ Head(s) \in WhiteSpace THEN TrimStart(Tail(s)) ELSE s

RECURSIVE TrimEnd(_)
TrimEnd(s) ==
    IF s # <<>> /\ s[Len(s)] \in WhiteSpace
    THEN TrimEnd(SubSeq(s, 1, Len(s) - 1))
    ELSE s

Trim(s) == TrimEnd(TrimStart(s))

(* ------------------------- server responses ---------------------------- *)
\* fetch("/") rejected, or response.text() rejected
NetErr ==
    [kind |-> "neterr", status |-> 0, ids |-> {},
     temperature |-> "", distance |-> "", alertMessage |-> <<>>]

\* Any HTTP response resolves fetch(); text/html parsing never throws, it
\* yields a document in which each of the three ids is present or not.
HttpResponses ==
    {r \in [kind : {"http"}, status : Statuses, ids : SUBSET ElementIds,
            temperature : Vals \cup {""}, distance : Vals \cup {""},
            alertMessage : Msgs] :
        /\ ("temperature" \in r.ids) <=> (r.temperature # "")
        /\ ("distance" \in r.ids) <=> (r.distance # "")
        /\ ("alertMessage" \notin r.ids) => (r.alertMessage = <<>>)}

Responses == {NetErr} \cup HttpResponses

VARIABLES
    scriptRan,     \* the head <script> has executed
    dom,           \* number of live body elements parsed so far (0..BodyElements)
    timer,         \* [armed, interval] of the interval timer
    temperature,   \* text of the live #temperature element
    distance,      \* text of the live #distance element
    alertText,     \* text of the live #alertBox element
    alertStyle,    \* alertBox.style.display ("" when never set)
    alertMessage,  \* text of the live hidden #alertMessage element
    inflight,      \* ids of fetches issued and not yet settled
    calls,         \* number of fetchData() invocations
    ticks,         \* number of timer firings
    last,          \* the most recently settled refresh cycle: the HTTP status
                   \* it received (0 if none) and whether the callback
                   \* returned ("ok") or the rejection reached .catch and was
                   \* logged ("failed")
    lastOk,        \* the document parsed by the most recently settled
                   \* successful cycle
    shown          \* message of the most recent successful non-empty cycle

vars == <<scriptRan, dom, timer, temperature, distance, alertText, alertStyle,
          alertMessage, inflight, calls, ticks, last, lastOk, shown>>

Live == [temperature |-> temperature, distance |-> distance,
         alertText |-> alertText, alertStyle |-> alertStyle]

\* document.getElementById(...) on the live document, in markup order
HasAlertBox(d) == d >= 1
HasTemperature(d) == d >= 2
HasDistance(d) == d >= 3
Loaded == dom = BodyElements

\* computed visibility of the alert box: inline style wins over the class rule
Visible(style) ==
    IF style = "" THEN AlertBoxCssDisplay # "none" ELSE style # "none"

(* ----------------------- fetchData: the .then callback ------------------ *)
SetTemperatureFromDistance(live, doc) == [live EXCEPT !.temperature = doc.distance]

\* document.getElementById("temperature").innerText = doc...innerText
SetTemperature(live, doc) == [live EXCEPT !.temperature = doc.temperature]

\* document.getElementById("distance").innerText = doc...innerText
SetDistance(live, doc) == [live EXCEPT !.distance = doc.distance]

NewAlertNonEmptyNoTrim(msg) == msg # <<>>

\* newAlertMessage.trim() !== ""
NewAlertNonEmpty(msg) == Trim(msg) # <<>>

ShowAlertTrimmed(live, msg) ==
    [live EXCEPT !.alertText = Trim(msg), !.alertStyle = "block"]

\* alertBox.innerText = newAlertMessage; alertBox.style.display = "block"
ShowAlert(live, msg) ==
    [live EXCEPT !.alertText = msg, !.alertStyle = "block"]

HideAlertAndClear(live) ==
    [live EXCEPT !.alertText = <<>>, !.alertStyle = "none"]

\* alertBox.style.display = "none"
HideAlert(live) == [live EXCEPT !.alertStyle = "none"]

UpdateAlert(live, msg) ==
    IF NewAlertNonEmpty(msg) THEN ShowAlert(live, msg) ELSE HideAlert(live)

Thrown(live) == [live |-> live, threw |-> TRUE]
Returned(live) == [live |-> live, threw |-> FALSE]

ThenCallbackAlertFirst(live, d, doc) ==
    IF "alertMessage" \notin doc.ids \/ ~HasAlertBox(d)
    THEN Thrown(live)
    ELSE LET l1 == UpdateAlert(live, doc.alertMessage) IN
         IF ~HasTemperature(d) \/ "temperature" \notin doc.ids
         THEN Thrown(l1)
         ELSE LET l2 == SetTemperature(l1, doc) IN
              IF ~HasDistance(d) \/ "distance" \notin doc.ids
              THEN Thrown(l2)
              ELSE Returned(SetDistance(l2, doc))

\* The statements of the callback run in order; dereferencing a null
\* element (live or parsed) throws a TypeError at that statement and the
\* writes made by the earlier statements stay.
ThenCallback(live, d, doc) ==
    IF ~HasTemperature(d) \/ "temperature" \notin doc.ids
    THEN Thrown(live)
    ELSE LET l1 == SetTemperature(live, doc) IN
         IF ~HasDistance(d) \/ "distance" \notin doc.ids
         THEN Thrown(l1)
         ELSE LET l2 == SetDistance(l1, doc) IN
              IF "alertMessage" \notin doc.ids \/ ~HasAlertBox(d)
              THEN Thrown(l2)
              ELSE Returned(UpdateAlert(l2, doc.alertMessage))

\* fetch("/").then(text).then(callback): a rejected fetch skips the callback;
\* a resolved one runs it whatever the HTTP status is.
FetchSettled(live, d, r) ==
    IF r.kind = "neterr" THEN Thrown(live) ELSE ThenCallback(live, d, r)

RearmOneShot(t) == [t EXCEPT !.armed = FALSE]

\* an interval timer stays armed, with its interval, after it fires
Rearm(t) == t

NoCycle == [outcome |-> "none", status |-> 0]
NoSnapshot == [valid |-> FALSE, temperature |-> "", distance |-> "",
               alertMessage |-> <<>>]
Snapshot(r) == [valid |-> TRUE, temperature |-> r.temperature,
                distance |-> r.distance, alertMessage |-> r.alertMessage]

(* ------------------------------ state machine -------------------------- *)
Init ==
    /\ scriptRan = FALSE
    /\ dom = 0
    /\ timer = [armed |-> FALSE, interval |-> 0]
    /\ temperature = ""
    /\ distance = ""
    /\ alertText = <<>>
    /\ alertStyle = ""
    /\ alertMessage = <<>>
    /\ inflight = {}
    /\ calls = 0
    /\ ticks = 0
    /\ last = NoCycle
    /\ lastOk = NoSnapshot
    /\ shown = <<>>

\* The <script> in <head> executes while the document is still being parsed.
RunScript ==
    /\ ~scriptRan
    /\ scriptRan' = TRUE
    /\ timer' = [armed |-> TRUE, interval |-> PollInterval]
    /\ UNCHANGED <<dom, temperature, distance, alertText, alertStyle,
                   alertMessage, inflight, calls, ticks, last, lastOk,
                   shown>>

\* The parser creates the next body element, filled by the server's
\* substitution of its placeholder.
ParseElement ==
    /\ scriptRan
    /\ dom < BodyElements
    /\ dom' = dom + 1
    /\ IF dom' = 2 THEN temperature' \in Vals ELSE temperature' = temperature
    /\ IF dom' = 3 THEN distance' \in Vals ELSE distance' = distance
    /\ IF dom' = 4 THEN alertMessage' \in InitMsgs
                   ELSE alertMessage' = alertMessage
    /\ UNCHANGED <<scriptRan, timer, alertText, alertStyle, inflight, calls,
                   ticks, last, lastOk, shown>>

\* The timer fires and calls fetchData(), which issues fetch("/").
Tick ==
    /\ timer.armed
    /\ ticks < MaxTicks
    /\ ticks' = ticks + 1
    /\ calls' = calls + 1
    /\ inflight' = inflight \cup {calls + 1}
    /\ timer' = Rearm(timer)
    /\ UNCHANGED <<scriptRan, dom, temperature, distance, alertText,
                   alertStyle, alertMessage, last, lastOk, shown>>

\* The promise chain of one pending fetch settles with response r.
Settle(id, r) ==
    /\ id \in inflight
    /\ LET res == FetchSettled(Live, dom, r) IN
        /\ temperature' = res.live.temperature
        /\ distance' = res.live.distance
        /\ alertText' = res.live.alertText
        /\ alertStyle' = res.live.alertStyle
        /\ last' = [outcome |-> IF res.threw THEN "failed" ELSE "ok",
                    status |-> r.status]
        /\ lastOk' = IF res.threw THEN lastOk ELSE Snapshot(r)
        /\ shown' = IF ~res.threw /\ Trim(r.alertMessage) # <<>>
                    THEN r.alertMessage ELSE shown
    /\ inflight' = inflight \ {id}
    /\ UNCHANGED <<scriptRan, dom, timer, alertMessage, calls, ticks>>

Next ==
    \/ RunScript
    \/ ParseElement
    \/ Tick
    \/ \E id \in inflight : \E r \in Responses : Settle(id, r)

Spec == Init /\ [][Next]_vars

(* ------------------------------ properties ----------------------------- *)
\* a step in which one pending promise chain settled
SettleStep == Cardinality(inflight') < Cardinality(inflight)

\* C1 (as stated): after a successful cycle with a non-blank alertMessage the
\* alert element's text is the TRIMMED message and the element is visible.
C1_TrimmedAlertShown ==
    (last.outcome = "ok" /\ Trim(lastOk.alertMessage) # <<>>)
        => (alertText = Trim(lastOk.alertMessage) /\ Visible(alertStyle))

\* C1 (amended): after a successful cycle with a non-blank alertMessage the
\* alert element's text is the message exactly as parsed, surrounding
\* whitespace included, and the element is visible.
C1_RawAlertShown ==
    (last.outcome = "ok" /\ Trim(lastOk.alertMessage) # <<>>)
        => (alertText = lastOk.alertMessage /\ Visible(alertStyle))

C1_Witness ==
    /\ last.outcome = "ok"
    /\ Trim(lastOk.alertMessage) # <<>>
    /\ Trim(lastOk.alertMessage) # lastOk.alertMessage
    /\ alertText = lastOk.alertMessage

\* C2: a refresh cycle that fails (rejected fetch, or any of the three
\* elements missing) leaves temperature, distance and the alert element's
\* text and visibility exactly as they were before the cycle.
C2_FailurePreservesState ==
    [][(SettleStep /\ last'.outcome = "failed") => Live' = Live]_vars

\* C3: after a successful cycle whose alertMessage is empty or blank the
\* alert element is hidden, whatever it was before.
C3_EmptyAlertHides ==
    /\ (last.outcome = "ok" /\ Trim(lastOk.alertMessage) = <<>>)
           => ~Visible(alertStyle)
    /\ [][(SettleStep /\ last'.outcome = "ok"
             /\ Trim(lastOk'.alertMessage) = <<>>)
            => ~Visible(alertStyle')]_vars

C3_Witness ==
    /\ last.outcome = "ok"
    /\ lastOk.alertMessage # <<>>
    /\ Trim(lastOk.alertMessage) = <<>>
    /\ shown # <<>>
    /\ alertStyle = "none"

\* C4: after a successful cycle the displayed temperature and distance are
\* exactly the texts of the temperature and distance elements of the
\* response that cycle parsed.
C4_FieldPassthrough ==
    (last.outcome = "ok")
        => (temperature = lastOk.temperature
            /\ distance = lastOk.distance)

C4_Witness ==
    /\ last.outcome = "ok"
    /\ temperature = "72"
    /\ distance = "70"
    /\ ticks = 2

\* C5: a response with a non-success HTTP status is a failed cycle: it is
\* logged and changes no display region, even when its body carries the
\* three elements.
C5_NonSuccessIsFailure ==
    [][(SettleStep /\ last'.status \notin {0, 200})
        => (last'.outcome = "failed" /\ Live' = Live)]_vars

\* C6: once armed the timer stays armed with its fixed interval whatever the
\* cycles did, every firing calls fetchData exactly once (no retry is
\* scheduled besides), and the next firing is always possible.
C6_PollingNeverStops ==
    /\ [](timer.armed => timer.interval = PollInterval)
    /\ [](calls = ticks)
    /\ []((timer.armed /\ ticks < MaxTicks) => ENABLED Tick)
    /\ [][timer.armed => (timer'.armed /\ timer'.interval = timer.interval)]_vars

C6_Witness ==
    /\ timer.armed
    /\ last.outcome = "failed"
    /\ inflight = {}
    /\ ticks = 2

\* C7 (as stated): the timer is started only once the page has finished
\* loading, and no refresh cycle is invoked before the live elements exist.
C7_TimerStartsAfterLoad ==
    /\ timer.armed => Loaded
    /\ calls > 0 => Loaded

\* C7 (amended): the timer is started when the head script executes, which
\* is before any live element exists; a cycle that settles while the live
\* temperature element does not exist yet fails and touches no display
\* region.
C7_TimerStartsInHead ==
    /\ [](timer.armed <=> scriptRan)
    /\ [][(~scriptRan /\ scriptRan') => (dom = 0 /\ timer'.armed)]_vars
    /\ [][(SettleStep /\ ~HasTemperature(dom))
            => (last'.outcome = "failed" /\ Live' = Live)]_vars

C7_Witness ==
    /\ timer.armed
    /\ HasAlertBox(dom)
    /\ ~HasTemperature(dom)
    /\ last.outcome = "failed"
    /\ last.status = 200

\* C8: under every interleaving of completions the three display regions
\* hold the values written by the most recently completed successful fetch.
C8_LastSuccessfulWriterWins ==
    lastOk.valid =>
        /\ temperature = lastOk.temperature
        /\ distance = lastOk.distance
        /\ Visible(alertStyle) = (Trim(lastOk.alertMessage) # <<>>)
        /\ Visible(alertStyle) => alertText = lastOk.alertMessage

\* C9: a successful cycle whose alertMessage is empty or blank changes the
\* alert element's visibility only; its text stays what the last successful
\* non-blank cycle set (empty if there was none).
C9_HidingKeepsText ==
    /\ [](alertText = shown)
    /\ [][(SettleStep /\ last'.outcome = "ok"
             /\ Trim(lastOk'.alertMessage) = <<>>)
            => (alertText' = alertText /\ alertStyle' = "none")]_vars

C9_Witness ==
    /\ last.outcome = "ok"
    /\ Trim(lastOk.alertMessage) = <<>>
    /\ alertStyle = "none"
    /\ alertText # <<>>
    /\ alertText = shown

\* C10: whenever the alert element is visible its text is not blank, and the
\* element stays hidden from page load until the first successful cycle with
\* a non-blank alertMessage, even if the served document carried one.
C10_VisibleImpliesText ==
    /\ Visible(alertStyle) => Trim(alertText) # <<>>
    /\ shown = <<>> => ~Visible(alertStyle)

C10_Witness ==
    /\ Loaded
    /\ alertMessage # <<>>
    /\ last.outcome = "ok"
    /\ shown = <<>>
    /\ ~Visible(alertStyle)

====
